---- MODULE Spec2Model ----
(***************************************************************************)
(* VoiceCalculator: the duplex audio session engine of the voice-driven    *)
(* calculator (src/unnamed/part_000, the VoiceCalculator component).       *)
(*                                                                         *)
(* The component is a set of handlers run by one event loop.  Each action  *)
(* below is one handler, or the part of an async handler between two       *)
(* suspension points (an await).  Refs are plain variables written at      *)
(* once.  connectionState and history are React state read by the code     *)
(* (by toggleConnection, by the history updater): each is the value of the *)
(* last render plus the queue of updates not rendered yet.  displayText,   *)
(* expression and analyser are written with plain values and read by the   *)
(* JSX only: each is the value last set, which the next render shows.      *)
(***************************************************************************)
EXTENDS Integers, Sequences, FiniteSets, TLC

(* ------------------------------ bounds -------------------------------- *)
MaxConnects == 1
MaxBuf == 2
MaxPending == 2
MaxAudio == 2
MaxDur == 2
MaxTime == 2
MaxHistCalc == 1
MaxSessions == 2

(* ------------------------- program constants -------------------------- *)
HistoryLimit == 10

DISCONNECTED == "DISCONNECTED"
CONNECTING == "CONNECTING"
CONNECTED == "CONNECTED"
ERROR == "ERROR"
ConnectionState == {DISCONNECTED, CONNECTING, CONNECTED, ERROR}

InitialDisplayText == "start voice input"
NeutralResult == "0"
AckResult == "ok"

(* The calls of connect() of a run, numbered from 1.                        *)
Attempts == 1 .. (IF MaxSessions > MaxConnects THEN MaxSessions ELSE MaxConnects)

VARIABLES
    connectionState, displayText, expression, history, analyser,
    pend,
    inputAudioContextRef, outputAudioContextRef, streamRef, sessionRef,
    nextStartTimeRef, sourcesRef, currentInputRef, isResultFinalRef,
    apiKey, att, nAttempts, ctxTime, decoding, nAudio, sched,
    mounted,
    out, last, frags, dispatched, rel, tornDown

reactVars == <<connectionState, displayText, expression, history, analyser>>
refVars == <<inputAudioContextRef, outputAudioContextRef, streamRef, sessionRef,
             nextStartTimeRef, sourcesRef, currentInputRef, isResultFinalRef>>
envVars == <<apiKey, att, nAttempts, ctxTime, decoding, nAudio, sched>>
obsVars == <<out, last, frags, dispatched, rel, tornDown, mounted>>
vars == <<reactVars, pend, refVars, envVars, mounted, obsVars>>

(* ------------------------------ helpers ------------------------------- *)
Max(a, b) == IF a >= b THEN a ELSE b

Min(a, b) == IF a <= b THEN a ELSE b

RECURSIVE Concat(_)
Concat(ss) == IF ss = <<>> THEN "" ELSE Head(ss) \o Concat(Tail(ss))

(* Array.prototype.slice(0, n) *)
Slice(s, n) == SubSeq(s, 1, Min(Len(s), n))

(* ---------------------- React state and its queue --------------------- *)
(* A queue of plain values is kept as its last element, which is all a     *)
(* render reads of it; the history hook's queue holds updater functions    *)
(* too and is kept whole.                                                  *)
NoUpdates == [conn |-> <<>>, hist |-> <<>>]

SetState(q, v) == <<v>>

Rendered(q, v) == IF q = <<>> THEN v ELSE q[Len(q)]

(* setHistory([]) and setHistory(prev => [`${currentInputRef.current} = ${text}`, ...prev].slice(0, 10)) *)
ClearHistory == [op |-> "set", text |-> ""]

PushHistory(text) == [op |-> "updater", text |-> text]

HistoryEntry(expr, text) == expr \o " = " \o text

HistoryUpdaterSlicePrev(prev, cur, text) ==
    <<HistoryEntry(cur, text)>> \o Slice(prev, HistoryLimit)

HistoryUpdater(prev, cur, text) == Slice(<<HistoryEntry(cur, text)>> \o prev, HistoryLimit)

(* The render runs the queued updaters in order; an updater reads          *)
(* currentInputRef.current when it runs.                                   *)
RECURSIVE RenderedHistory(_, _, _)
RenderedHistory(q, prev, cur) ==
    IF q = <<>> THEN prev
    ELSE RenderedHistory(Tail(q),
                         IF Head(q).op = "set" THEN <<>>
                         ELSE HistoryUpdater(prev, cur, Head(q).text),
                         cur)

ShownConnectionState == Rendered(pend.conn, connectionState)
ShownHistory == RenderedHistory(pend.hist, history, currentInputRef)

(* One render: every queued update is applied and the queues are emptied.  *)
Commit(q, cur) ==
    /\ connectionState' = Rendered(q.conn, connectionState)
    /\ history' = RenderedHistory(q.hist, history, cur)
    /\ pend' = NoUpdates

(* ------------------- inbound messages (the inputs) -------------------- *)
(* A LiveServerMessage as the handler reads it: the transcription text     *)
(* ("" when absent), its toolCall ("absent", "noFunctionCalls" for a       *)
(* toolCall whose functionCalls is undefined, "functionCalls" for one that *)
(* has the list), the function calls of the list (<<>> when there is       *)
(* none) and the duration its audio data decodes to (0 when absent).  A    *)
(* function call is its id, its name, whether it has args and the text of  *)
(* its args ("" when it has none).                                         *)
Fragments == {"3", "+"}
Texts == {"8"}
CallIds == {"a", "b"}
ToolNames == {"displayResult", "resetApp", "noSuchTool"}

Msg(text, toolCall, calls, audio) ==
    [text |-> text, toolCall |-> toolCall, calls |-> calls, audio |-> audio]

(* ---------------- onmessage, part 1: the transcription ---------------- *)
(* c is the state the handler reads and writes: cur and final are          *)
(* currentInputRef and isResultFinalRef, expr and text the expression and  *)
(* displayText set, q the update queues; frags and dispatched are the      *)
(* observers defined with the claims.                                      *)
TranscriptionNoClear(c, text) ==
    IF text = "" THEN c
    ELSE [c EXCEPT !.cur = @ \o text,
                   !.final = FALSE,
                   !.expr = c.cur \o text,
                   !.frags = IF c.final THEN <<text>> ELSE Append(@, text)]

TranscriptionPrepend(c, text) ==
    IF text = "" THEN c
    ELSE LET c1 == IF c.final
                   THEN [c EXCEPT !.cur = "", !.expr = "",
                                  !.final = FALSE, !.frags = <<>>]
                   ELSE c
         IN  [c1 EXCEPT !.cur = text \o @,
                        !.expr = text \o c1.cur,
                        !.frags = Append(@, text)]

Transcription(c, text) ==
    IF text = "" THEN c
    ELSE LET c1 == IF c.final
                   THEN [c EXCEPT !.cur = "", !.expr = "",
                                  !.final = FALSE, !.frags = <<>>]
                   ELSE c
         IN  [c1 EXCEPT !.cur = @ \o text,
                        !.expr = c1.cur \o text,
                        !.frags = Append(@, text)]

(* ----------------- onmessage, part 2: the tool calls ------------------ *)
DisplayResult(c, text) ==
    [c EXCEPT !.text = text,
              !.q.hist = Append(@, PushHistory(text)),
              !.final = TRUE,
              !.dispatched = <<[expr |-> c.cur, text |-> text]>>]

ResetAppKeepHistory(c) ==
    [c EXCEPT !.text = NeutralResult,
              !.expr = "",
              !.cur = "",
              !.final = FALSE,
              !.frags = <<>>,
              !.dispatched = <<>>]

ResetApp(c) ==
    [c EXCEPT !.text = NeutralResult,
              !.expr = "",
              !.cur = "",
              !.q.hist = Append(@, ClearHistory),
              !.final = FALSE,
              !.frags = <<>>,
              !.dispatched = <<>>]

FunctionCall(c, fc) ==
    IF fc.name = "displayResult" THEN DisplayResult(c, fc.text)
    ELSE IF fc.name = "resetApp" THEN ResetApp(c)
    ELSE c

(* Reading the text of a displayResult call that has no args throws, before *)
(* the call has changed anything.                                          *)
CallThrows(fc) == fc.name = "displayResult" /\ ~fc.args

(* The loop over the function calls ends at the first call that throws:    *)
(* the calls before it have taken effect, the calls after it are not read. *)
RECURSIVE ToolCall(_, _)
ToolCall(c, calls) ==
    IF calls = <<>> \/ CallThrows(Head(calls)) THEN c
    ELSE ToolCall(FunctionCall(c, Head(calls)), Tail(calls))

(* The handler throws, and its promise rejects, when the functionCalls of  *)
(* the toolCall is undefined (it is not iterable) or a call throws.        *)
Throws(m) ==
    \/ m.toolCall = "noFunctionCalls"
    \/ m.toolCall = "functionCalls" /\ \E i \in DOMAIN m.calls : CallThrows(m.calls[i])

FunctionResponse(fc) == [id |-> fc.id, name |-> fc.name, result |-> AckResult]

FunctionResponses(calls) == [i \in 1 .. Len(calls) |-> FunctionResponse(calls[i])]

(* What the handler sends: one sendToolResponse when the message has a     *)
(* toolCall and the loop over its calls has ended without throwing,        *)
(* through the session of the connect() that owns the callback.            *)
ToolResponses(k, m) ==
    IF m.toolCall = "absent" \/ Throws(m) THEN <<>>
    ELSE <<[type |-> "toolResponse", sess |-> k, responses |-> FunctionResponses(m.calls)]>>

(* --------------------------- the environment -------------------------- *)
(* Each call of connect() is an attempt k: it owns the two audio contexts, *)
(* the input stream and the transport session it creates, and the          *)
(* callbacks it passes to the transport close over them.  A ref holds the  *)
(* number of the attempt whose resource it points to, 0 for null.          *)
NoAttempt ==
    [pc |-> "idle", inCtx |-> "none", outCtx |-> "none", stream |-> "none",
     sess |-> "none", resolved |-> FALSE, closeReq |-> FALSE, capture |-> FALSE, errored |-> FALSE]

(* last is the handler that ran last: cleanup, onmessage with its message   *)
(* and the flag it found, or any other.                                    *)
Other == [op |-> "other"]

NoRelease == [stream |-> 0, inCtx |-> 0, outCtx |-> 0, sess |-> 0]

Once(n) == Min(n + 1, 2)

Init ==
    /\ connectionState = DISCONNECTED
    /\ displayText = InitialDisplayText
    /\ expression = ""
    /\ history = <<>>
    /\ analyser = 0
    /\ pend = NoUpdates
    /\ inputAudioContextRef = 0
    /\ outputAudioContextRef = 0
    /\ streamRef = 0
    /\ sessionRef = 0
    /\ nextStartTimeRef = 0
    /\ sourcesRef = {}
    /\ currentInputRef = ""
    /\ isResultFinalRef = FALSE
    /\ apiKey \in BOOLEAN
    /\ att = [k \in Attempts |-> NoAttempt]
    /\ nAttempts = 0
    /\ ctxTime = [k \in Attempts |-> 0]
    /\ decoding = {}
    /\ nAudio = 0
    /\ sched = <<>>
    /\ out = <<>>
    /\ last = Other
    /\ frags = <<>>
    /\ dispatched = <<>>
    /\ rel = [k \in Attempts |-> NoRelease]
    /\ tornDown = FALSE
    /\ mounted = TRUE

(* ------------------------------ cleanup ------------------------------- *)
(* A connect() is pending while it waits for the input device or for its   *)
(* transport to open.                                                      *)
ConnectPending == \E k \in Attempts : att[k].pc = "awaitMedia" \/ att[k].sess = "connecting"

(* session.close() runs in the then() of the session promise: at once when *)
(* the promise is resolved, when it resolves otherwise.                    *)
SessionResolved(a) == a.resolved

CleanupAttempt(k, a) ==
    [a EXCEPT !.stream = IF k = streamRef THEN "stopped" ELSE @,
              !.inCtx = IF k = inputAudioContextRef THEN "closed" ELSE @,
              !.outCtx = IF k = outputAudioContextRef THEN "closed" ELSE @,
              !.sess = IF k = sessionRef /\ a.sess = "open" THEN "closing" ELSE @,
              !.closeReq = IF k = sessionRef /\ ~SessionResolved(a) THEN TRUE ELSE @]

CleanupRelease(k, r) ==
    [r EXCEPT !.stream = IF k = streamRef THEN Once(@) ELSE @,
              !.inCtx = IF k = inputAudioContextRef THEN Once(@) ELSE @,
              !.outCtx = IF k = outputAudioContextRef THEN Once(@) ELSE @,
              !.sess = IF k = sessionRef /\ SessionResolved(att[k]) THEN Once(@) ELSE @]

CleanupUpdatesKeepState(q) == q

CleanupUpdates(q) == [q EXCEPT !.conn = SetState(@, DISCONNECTED)]

CleanupRefsKeepStream ==
    /\ streamRef' = streamRef
    /\ inputAudioContextRef' = 0
    /\ outputAudioContextRef' = 0
    /\ sessionRef' = 0
    /\ sourcesRef' = {}
    /\ currentInputRef' = ""
    /\ isResultFinalRef' = FALSE

CleanupRefs ==
    /\ streamRef' = 0
    /\ inputAudioContextRef' = 0
    /\ outputAudioContextRef' = 0
    /\ sessionRef' = 0
    /\ sourcesRef' = {}
    /\ currentInputRef' = ""
    /\ isResultFinalRef' = FALSE

(* cleanup() but for its two setState calls, which CleanupUpdates queues.  *)
(* e is the attempt whose onerror callback runs it, 0 when there is none.  *)
cleanup(e) ==
    /\ CleanupRefs
    /\ att' = [k \in Attempts |->
                 [CleanupAttempt(k, att[k]) EXCEPT !.errored = IF k = e THEN TRUE ELSE @]]
    /\ rel' = [k \in Attempts |-> CleanupRelease(k, rel[k])]
    /\ analyser' = 0
    /\ frags' = <<>>
    /\ tornDown' = (tornDown \/ ConnectPending)
    /\ UNCHANGED <<displayText, expression, nextStartTimeRef, apiKey, nAttempts, ctxTime, decoding, nAudio, sched,
                   dispatched>>

(* ------------------------------ connect ------------------------------- *)
(* connect() up to its await of getUserMedia; k is the new attempt.        *)
connect(k) ==
    LET q1 == [pend EXCEPT !.conn = SetState(@, CONNECTING)]
    IN  /\ nAttempts' = k
        /\ tornDown' = FALSE
        /\ IF ~apiKey
           THEN /\ att' = [att EXCEPT ![k].pc = "failed"]
                /\ Commit([q1 EXCEPT !.conn = SetState(@, ERROR)], currentInputRef)
                /\ UNCHANGED <<inputAudioContextRef, outputAudioContextRef, ctxTime>>
           ELSE /\ att' = [att EXCEPT ![k].pc = "awaitMedia",
                                      ![k].inCtx = "running",
                                      ![k].outCtx = "running"]
                /\ inputAudioContextRef' = k
                /\ outputAudioContextRef' = k
                /\ ctxTime' = [ctxTime EXCEPT ![k] = 0]
                /\ Commit(q1, currentInputRef)
        /\ UNCHANGED <<displayText, expression, analyser, streamRef, sessionRef,
                       nextStartTimeRef, sourcesRef, currentInputRef, isResultFinalRef,
                       apiKey, decoding, nAudio, sched, frags, dispatched, rel>>

toggleConnectionStopsConnectedOnly(n) ==
    /\ mounted
    /\ IF connectionState = CONNECTED
       THEN /\ cleanup(0)
            /\ Commit(CleanupUpdates(pend), "")
            /\ last' = [op |-> "cleanup"]
       ELSE /\ nAttempts < n
            /\ connect(nAttempts + 1)
            /\ last' = Other
    /\ out' = <<>>
    /\ UNCHANGED mounted

(* The click handler; React renders the updates of a click before the      *)
(* next event is handled.  n bounds the calls of connect() of a run.       *)
toggleConnection(n) ==
    /\ mounted
    /\ IF connectionState = CONNECTED \/ connectionState = CONNECTING
       THEN /\ cleanup(0)
            /\ Commit(CleanupUpdates(pend), "")
            /\ last' = [op |-> "cleanup"]
       ELSE /\ nAttempts < n
            /\ connect(nAttempts + 1)
            /\ last' = Other
    /\ out' = <<>>
    /\ UNCHANGED mounted

ToggleConnection == toggleConnection(MaxConnects)

(* connect() after getUserMedia resolved, to its end: the stream is kept,  *)
(* the analyser and the source are created on the input context of the     *)
(* attempt (the Web Audio API creates nodes on a closed context too) and   *)
(* the transport starts to open.                                           *)
GetUserMediaResolve(k) ==
    /\ att[k].pc = "awaitMedia"
    /\ streamRef' = k
    /\ att' = [att EXCEPT ![k].pc = "done", ![k].stream = "live", ![k].sess = "connecting"]
    /\ analyser' = k
    /\ sessionRef' = k
    /\ UNCHANGED pend
    /\ out' = <<>>
    /\ last' = Other
    /\ UNCHANGED <<connectionState, displayText, expression, history,
                   inputAudioContextRef, outputAudioContextRef, nextStartTimeRef,
                   sourcesRef, currentInputRef, isResultFinalRef, apiKey, nAttempts, ctxTime,
                   decoding, nAudio, sched, frags, dispatched, rel, tornDown, mounted>>

(* getUserMedia rejected: the catch block of connect().                    *)
GetUserMediaReject(k) ==
    /\ att[k].pc = "awaitMedia"
    /\ att' = [att EXCEPT ![k].pc = "failed"]
    /\ pend' = [pend EXCEPT !.conn = SetState(@, ERROR)]
    /\ out' = <<>>
    /\ last' = Other
    /\ UNCHANGED <<reactVars, refVars, apiKey, nAttempts, ctxTime, decoding, nAudio, sched,
                   frags, dispatched, rel, tornDown, mounted>>

(* --------------------- the transport's callbacks ---------------------- *)
(* onopen, then the session promise resolves and a close() that cleanup    *)
(* chained on it runs.  A transport that reported an error while it was    *)
(* opening does not open.                                                  *)
onopen(k) ==
    /\ att[k].sess = "connecting"
    /\ ~att[k].errored
    /\ pend' = [pend EXCEPT !.conn = SetState(@, CONNECTED)]
    /\ att' = [att EXCEPT ![k].capture = TRUE,
                          ![k].resolved = TRUE,
                          ![k].closeReq = FALSE,
                          ![k].sess = IF att[k].closeReq THEN "closing" ELSE "open"]
    /\ rel' = [rel EXCEPT ![k].sess = IF att[k].closeReq THEN Once(@) ELSE @]
    /\ out' = <<>>
    /\ last' = Other
    /\ UNCHANGED <<reactVars, refVars, apiKey, nAttempts, ctxTime, decoding, nAudio, sched,
                   frags, dispatched, tornDown, mounted>>

(* onmessage up to its await of decodeAudioData, or up to the point where  *)
(* it throws: what it has done before stays, the rest of it is not run.    *)
onmessage(k, m) ==
    LET c0 == [cur |-> currentInputRef, final |-> isResultFinalRef,
               expr |-> expression, text |-> displayText, q |-> pend,
               frags |-> frags, dispatched |-> dispatched]
        c1 == Transcription(c0, m.text)
        c == IF m.toolCall = "functionCalls" THEN ToolCall(c1, m.calls) ELSE c1
        ctx == outputAudioContextRef
    IN  /\ att[k].sess \in {"open", "closing"}
        /\ currentInputRef' = c.cur
        /\ isResultFinalRef' = c.final
        /\ expression' = c.expr
        /\ displayText' = c.text
        /\ pend' = c.q
        /\ frags' = c.frags
        /\ dispatched' = c.dispatched
        /\ out' = ToolResponses(k, m)
        /\ IF m.audio > 0 /\ ~Throws(m)
           THEN /\ nAudio' = nAudio + 1
                /\ IF ctx # 0
                   THEN /\ nextStartTimeRef' = Max(nextStartTimeRef, ctxTime[ctx])
                        /\ decoding' = decoding \cup
                               {[n |-> nAudio + 1, ctx |-> ctx, dur |-> m.audio]}
                   ELSE UNCHANGED <<nextStartTimeRef, decoding>>
           ELSE UNCHANGED <<nAudio, nextStartTimeRef, decoding>>
        /\ last' = [op |-> "onmessage", msg |-> m, final |-> isResultFinalRef]
        /\ UNCHANGED <<connectionState, history, analyser, inputAudioContextRef,
                       outputAudioContextRef, streamRef, sessionRef, sourcesRef, apiKey, att,
                       nAttempts, ctxTime, sched, rel, tornDown, mounted>>

(* decodeAudioData (utils/audioUtils) is asynchronous: the handler is      *)
(* suspended until its decode settles, and of the decodes in flight any    *)
(* may be the next to resolve or to reject.                                *)
decodeAudioData(h) == h \in decoding

(* onmessage after decodeAudioData resolved, for the fragment h.           *)
DecodeResolved(h) ==
    /\ decodeAudioData(h)
    /\ decoding' = decoding \ {h}
    /\ sched' = Append(sched, [n |-> h.n, ctx |-> h.ctx, start |-> nextStartTimeRef,
                               dur |-> h.dur, at |-> ctxTime[h.ctx]])
    /\ nextStartTimeRef' = nextStartTimeRef + h.dur
    /\ sourcesRef' = sourcesRef \cup {h.n}
    /\ out' = <<>>
    /\ last' = Other
    /\ UNCHANGED <<reactVars, pend, inputAudioContextRef, outputAudioContextRef, streamRef,
                   sessionRef, currentInputRef, isResultFinalRef, apiKey, att, nAttempts,
                   ctxTime, nAudio, frags, dispatched, rel, tornDown, mounted>>

(* decodeAudioData rejected: the handler ends there.                       *)
DecodeRejected(h) ==
    /\ decodeAudioData(h)
    /\ decoding' = decoding \ {h}
    /\ out' = <<>>
    /\ last' = Other
    /\ UNCHANGED <<reactVars, pend, refVars, apiKey, att, nAttempts, ctxTime, nAudio, sched,
                   frags, dispatched, rel, tornDown, mounted>>

(* The 'ended' listener of a source whose buffer has played to its end.    *)
ended(i) ==
    /\ i \in DOMAIN sched
    /\ sched[i].n \in sourcesRef
    /\ att[sched[i].ctx].outCtx = "running"
    /\ sched[i].start + sched[i].dur <= ctxTime[sched[i].ctx]
    /\ sourcesRef' = sourcesRef \ {sched[i].n}
    /\ out' = <<>>
    /\ last' = Other
    /\ UNCHANGED <<reactVars, pend, inputAudioContextRef, outputAudioContextRef, streamRef,
                   sessionRef, nextStartTimeRef, currentInputRef, isResultFinalRef, envVars,
                   frags, dispatched, rel, tornDown, mounted>>

onclose(k) ==
    /\ att[k].sess \in {"connecting", "open", "closing"}
    /\ att' = [att EXCEPT ![k].sess = "closed"]
    /\ pend' = [pend EXCEPT !.conn = SetState(@, DISCONNECTED)]
    /\ out' = <<>>
    /\ last' = Other
    /\ UNCHANGED <<reactVars, refVars, apiKey, nAttempts, ctxTime, decoding, nAudio, sched,
                   frags, dispatched, rel, tornDown, mounted>>

onerror(k) ==
    /\ att[k].sess \in {"connecting", "open", "closing"}
    /\ ~att[k].errored
    /\ cleanup(k)
    /\ pend' = CleanupUpdates([pend EXCEPT !.conn = SetState(@, ERROR)])
    /\ out' = <<>>
    /\ last' = [op |-> "cleanup"]
    /\ UNCHANGED <<connectionState, history, mounted>>

(* The cleanup of the effect, run when the component unmounts: cleanup()   *)
(* in whatever state the component is.  The component renders no more:     *)
(* the updates queued from then on stay queued.                            *)
unmount ==
    /\ mounted
    /\ mounted' = FALSE
    /\ cleanup(0)
    /\ pend' = CleanupUpdates(pend)
    /\ out' = <<>>
    /\ last' = [op |-> "cleanup"]
    /\ UNCHANGED <<connectionState, history>>

(* The script processor of attempt k delivers a frame: it does so while    *)
(* its input context runs, whether the tracks of the stream are stopped or *)
(* not.                                                                    *)
onaudioprocess(k) ==
    /\ att[k].capture
    /\ att[k].inCtx = "running"
    /\ out' = <<[type |-> "realtimeInput", sess |-> k]>>
    /\ last' = Other
    /\ UNCHANGED <<reactVars, pend, refVars, envVars, frags, dispatched, rel, tornDown, mounted>>

(* The clock of the output context of attempt k advances.                  *)
Tick(k) ==
    /\ att[k].outCtx = "running"
    /\ ctxTime[k] < MaxTime
    /\ ctxTime' = [ctxTime EXCEPT ![k] = @ + 1]
    /\ out' = <<>>
    /\ last' = Other
    /\ UNCHANGED <<reactVars, pend, refVars, apiKey, att, nAttempts, decoding, nAudio, sched,
                   frags, dispatched, rel, tornDown, mounted>>

(* ----------------------- the presentation surface --------------------- *)
handleManualResetKeepHistory ==
    /\ mounted
    /\ displayText' = NeutralResult
    /\ expression' = ""
    /\ currentInputRef' = ""
    /\ isResultFinalRef' = FALSE
    /\ Commit(pend, "")
    /\ frags' = <<>>
    /\ dispatched' = <<>>
    /\ out' = <<>>
    /\ last' = Other
    /\ UNCHANGED <<analyser, inputAudioContextRef, outputAudioContextRef, streamRef,
                   sessionRef, nextStartTimeRef, sourcesRef, envVars, rel, tornDown, mounted>>

handleManualReset ==
    LET q == [pend EXCEPT !.hist = Append(@, ClearHistory)]
    IN  /\ mounted
        /\ displayText' = NeutralResult
        /\ expression' = ""
        /\ currentInputRef' = ""
        /\ isResultFinalRef' = FALSE
        /\ Commit(q, "")
        /\ frags' = <<>>
        /\ dispatched' = <<>>
        /\ out' = <<>>
        /\ last' = Other
        /\ UNCHANGED <<analyser, inputAudioContextRef, outputAudioContextRef, streamRef,
                       sessionRef, nextStartTimeRef, sourcesRef, envVars, rel, tornDown, mounted>>

(* A render scheduled by updates queued outside a click.                   *)
Render ==
    /\ mounted
    /\ pend # NoUpdates
    /\ Commit(pend, currentInputRef)
    /\ out' = <<>>
    /\ last' = Other
    /\ UNCHANGED <<displayText, expression, analyser, refVars, envVars, frags, dispatched,
                   rel, tornDown, mounted>>

(* ------------------------- the specifications ------------------------- *)
Calls ==
    { [id |-> i, name |-> "displayResult", args |-> TRUE, text |-> t] : i \in CallIds, t \in Texts }
    \cup { [id |-> i, name |-> "displayResult", args |-> FALSE, text |-> ""] : i \in CallIds }
    \cup { [id |-> i, name |-> n, args |-> TRUE, text |-> ""] :
               i \in CallIds, n \in ToolNames \ {"displayResult"} }

FragmentMessages == { Msg(f, "absent", <<>>, 0) : f \in Fragments }

ToolCallMessages == { Msg("", "functionCalls", <<fc>>, 0) : fc \in { c \in Calls : c.id = "a" } }

(* A toolCall of an empty list of function calls.                          *)
EmptyBatch == Msg("", "functionCalls", <<>>, 0)

(* A toolCall whose functionCalls is undefined, alone and with audio data. *)
NoFunctionCalls == { Msg("", "noFunctionCalls", <<>>, d) : d \in {0, 1} }

(* The calls of one batch have different ids.                              *)
BatchMessages ==
    { Msg("", "functionCalls", b, 0) : b \in { p \in Calls \X Calls : p[1].id # p[2].id } }

AudioMessages == { Msg("", "absent", <<>>, d) : d \in 1 .. MaxDur }

RECURSIVE Results(_)
Results(calls) ==
    IF calls = <<>> \/ CallThrows(Head(calls)) THEN 0
    ELSE (IF Head(calls).name = "displayResult" THEN 1 ELSE 0) + Results(Tail(calls))

RECURSIVE Updaters(_)
Updaters(calls) ==
    IF calls = <<>> \/ CallThrows(Head(calls)) THEN 0
    ELSE (IF Head(calls).name = "noSuchTool" THEN 0 ELSE 1) + Updaters(Tail(calls))

(* The bounds on the inputs: the buffer, the queue of history updates and  *)
(* the number of audio fragments of a run stay within the bounds.          *)
Deliverable(m) ==
    /\ Len(IF isResultFinalRef THEN "" ELSE currentInputRef) + Len(m.text) <= MaxBuf
    /\ Len(pend.hist) + Updaters(m.calls) <= MaxPending
    /\ m.audio > 0 => nAudio < MaxAudio

(* A state after connect(), getUserMedia, onopen and a render: the first   *)
(* session is open and nothing else has happened.                          *)
Connected ==
    /\ connectionState = CONNECTED
    /\ displayText = InitialDisplayText
    /\ expression = ""
    /\ history = <<>>
    /\ analyser = 1
    /\ pend = NoUpdates
    /\ inputAudioContextRef = 1
    /\ outputAudioContextRef = 1
    /\ streamRef = 1
    /\ sessionRef = 1
    /\ nextStartTimeRef = 0
    /\ sourcesRef = {}
    /\ currentInputRef = ""
    /\ isResultFinalRef = FALSE
    /\ apiKey = TRUE
    /\ att = [k \in Attempts |->
                IF k = 1
                THEN [pc |-> "done", inCtx |-> "running", outCtx |-> "running",
                      stream |-> "live", sess |-> "open", resolved |-> TRUE,
                      closeReq |-> FALSE, capture |-> TRUE, errored |-> FALSE]
                ELSE NoAttempt]
    /\ nAttempts = 1
    /\ ctxTime = [k \in Attempts |-> 0]
    /\ decoding = {}
    /\ nAudio = 0
    /\ sched = <<>>
    /\ out = <<>>
    /\ last = Other
    /\ frags = <<>>
    /\ dispatched = <<>>
    /\ rel = [k \in Attempts |-> NoRelease]
    /\ tornDown = FALSE
    /\ mounted = TRUE

(* The bound on the history of the calculator's specifications.            *)
HistoryRoom(m) == Len(ShownHistory) + Results(m.calls) <= MaxHistCalc

(* The calculator: transcription fragments, results and resets (the tool   *)
(* calls that do not throw) of one open session, renders, the reset button *)
(* and the error of the transport.                                         *)
NextCalc ==
    \/ \E m \in FragmentMessages \cup { t \in ToolCallMessages : ~Throws(t) } :
          Deliverable(m) /\ HistoryRoom(m) /\ onmessage(1, m)
    \/ Render
    \/ handleManualReset
    \/ onerror(1)

SpecCalc == Connected /\ [][NextCalc]_vars

(* The tool dispatcher: batches of no, one and two calls of one open       *)
(* session, with one fragment to fill the buffer, and renders.             *)
NextTools ==
    \/ \E m \in {Msg("3", "absent", <<>>, 0), EmptyBatch} \cup NoFunctionCalls
                 \cup ToolCallMessages \cup BatchMessages :
          Deliverable(m) /\ HistoryRoom(m) /\ onmessage(1, m)
    \/ Render

SpecTools == Connected /\ [][NextTools]_vars

(* The history log: results of one open session and renders.               *)
NextHistory ==
    \/ \E m \in { Msg("", "functionCalls", <<fc>>, 0) : fc \in { [id |-> "a", name |-> "displayResult", args |-> TRUE, text |-> t] : t \in {"8", "9"} } } :
          Deliverable(m) /\ onmessage(1, m)
    \/ Render

SpecHistory == Connected /\ [][NextHistory]_vars

(* The playback scheduler: audio fragments of one open session, their      *)
(* decoding, the clock of the output device and the end of playback.       *)
NextAudio ==
    \/ \E m \in AudioMessages : Deliverable(m) /\ onmessage(1, m)
    \/ \E h \in decoding : DecodeResolved(h)
    \/ \E h \in decoding : DecodeRejected(h)
    \/ \E i \in DOMAIN sched : ended(i)
    \/ Tick(1)

SpecAudio == Connected /\ [][NextAudio]_vars

(* The session lifecycle: the button, the input device, the transport's    *)
(* callbacks, renders and the unmount, with one fragment, one result and   *)
(* one audio fragment as the messages.                                     *)
LifecycleMessages ==
    { Msg("3", "absent", <<>>, 1),
      Msg("", "functionCalls", <<[id |-> "a", name |-> "displayResult", args |-> TRUE, text |-> "8"]>>, 0) }

NextLifecycle ==
    \/ ToggleConnection
    \/ Render
    \/ \E k \in Attempts : GetUserMediaResolve(k)
    \/ \E k \in Attempts : GetUserMediaReject(k)
    \/ \E k \in Attempts : onopen(k)
    \/ \E k \in Attempts, m \in LifecycleMessages :
          /\ Deliverable(m)
          /\ m.text # "" => currentInputRef = "" /\ nAudio = 0
          /\ m.calls # <<>> => ShownHistory = <<>>
          /\ onmessage(k, m)
    \/ \E h \in decoding : DecodeResolved(h)
    \/ \E k \in Attempts : onclose(k)
    \/ \E k \in Attempts : onerror(k)
    \/ unmount

SpecLifecycle == Init /\ [][NextLifecycle]_vars

(* The reset button: a fragment, a result and an audio fragment of one     *)
(* open session, the decoding, the closing of the transport, renders and   *)
(* the button.                                                             *)
ResetMessages ==
    { Msg("3", "absent", <<>>, 0),
      Msg("", "functionCalls", <<[id |-> "a", name |-> "displayResult", args |-> TRUE, text |-> "8"]>>, 0),
      Msg("", "absent", <<>>, 1) }

NextReset ==
    \/ \E m \in ResetMessages : Deliverable(m) /\ HistoryRoom(m) /\ onmessage(1, m)
    \/ \E h \in decoding : DecodeResolved(h)
    \/ onclose(1)
    \/ Render
    \/ handleManualReset

SpecReset == Connected /\ [][NextReset]_vars

(* The sessions of a run: the button, the input device, the opening and    *)
(* the closing of the transport, the frames of the input device and        *)
(* renders, for up to MaxSessions calls of connect().                      *)
NextSessions ==
    \/ toggleConnection(MaxSessions)
    \/ Render
    \/ \E k \in Attempts : GetUserMediaResolve(k)
    \/ \E k \in Attempts : GetUserMediaReject(k)
    \/ \E k \in Attempts : onopen(k)
    \/ \E k \in Attempts : onclose(k)
    \/ \E k \in Attempts : onaudioprocess(k)

SpecSessions == Init /\ [][NextSessions]_vars

(* Playback over the sessions of a run: the button, the input device, the  *)
(* opening of the transport, audio fragments of one duration and their     *)
(* decoding, for up to MaxSessions calls of connect().                     *)
NextReconnect ==
    \/ toggleConnection(MaxSessions)
    \/ Render
    \/ \E k \in Attempts : GetUserMediaResolve(k)
    \/ \E k \in Attempts : onopen(k)
    \/ \E k \in Attempts : Deliverable(Msg("", "absent", <<>>, 1)) /\ onmessage(k, Msg("", "absent", <<>>, 1))
    \/ \E h \in decoding : DecodeResolved(h)

SpecReconnect == Init /\ [][NextReconnect]_vars

Next ==
    \/ ToggleConnection
    \/ handleManualReset
    \/ Render
    \/ \E k \in Attempts : GetUserMediaResolve(k)
    \/ \E k \in Attempts : GetUserMediaReject(k)
    \/ \E k \in Attempts : onopen(k)
    \/ \E k \in Attempts, m \in FragmentMessages \cup ToolCallMessages \cup AudioMessages :
          Deliverable(m) /\ onmessage(k, m)
    \/ \E h \in decoding : DecodeResolved(h)
    \/ \E h \in decoding : DecodeRejected(h)
    \/ \E i \in DOMAIN sched : ended(i)
    \/ \E k \in Attempts : onclose(k)
    \/ \E k \in Attempts : onerror(k)
    \/ \E k \in Attempts : onaudioprocess(k)
    \/ \E k \in Attempts : Tick(k)
    \/ unmount

Spec == Init /\ [][Next]_vars

(* ------------------------------- claims ------------------------------- *)
LastCalls == IF last.op = "onmessage" THEN last.msg.calls ELSE <<>>

LastToolCall == last.op = "onmessage" /\ last.msg.toolCall # "absent"

(* The calls of the last message that the handler ran: those before the    *)
(* first call that throws.                                                 *)
RECURSIVE Handled(_)
Handled(calls) ==
    IF calls = <<>> \/ CallThrows(Head(calls)) THEN <<>>
    ELSE <<Head(calls)>> \o Handled(Tail(calls))

LastHandled == Handled(LastCalls)

(* C1: a handled tool-call batch is answered by exactly one tool-response  *)
(* message, with one acknowledgement per call, in batch order, each with   *)
(* the id and the name of its call and the success marker, whatever the    *)
(* name of the call.                                                       *)
C1_OneResponsePerCall ==
    LastToolCall =>
        /\ Len(out) = 1
        /\ out[1].type = "toolResponse"
        /\ Len(out[1].responses) = Len(LastCalls)
        /\ \A i \in 1 .. Len(LastCalls) :
              /\ out[1].responses[i].id = LastCalls[i].id
              /\ out[1].responses[i].name = LastCalls[i].name
              /\ out[1].responses[i].result = "ok"

(* C2: frags is the sequence of fragments handled since the buffer was     *)
(* last emptied (by the first fragment after a result, a reset or a        *)
(* teardown); the TranscriptionBuffer and the displayed expression are     *)
(* their concatenation in delivery order.                                  *)
C2_Concatenation ==
    frags # <<>> =>
        /\ currentInputRef = Concat(frags)
        /\ expression = Concat(frags)

C2_Witness ==
    /\ frags = <<"3", "+">>
    /\ ~isResultFinalRef
    /\ currentInputRef = "3+"
    /\ expression = "3+"

(* C3: after a fragment f handled while ResultFinalized was true, the      *)
(* TranscriptionBuffer and the displayed expression are f and              *)
(* ResultFinalized is false.                                               *)
C3_NewUtterance ==
    (last.op = "onmessage" /\ last.msg.text # "" /\ last.final) =>
        /\ currentInputRef = last.msg.text
        /\ expression = last.msg.text
        /\ ~isResultFinalRef

C3_Witness ==
    /\ last.op = "onmessage" /\ last.msg.text = "+" /\ last.final
    /\ dispatched # <<>> /\ dispatched[1].expr = "3"
    /\ currentInputRef = "+"
    /\ expression = "+"

(* C4: after displayResult(text) dispatched (the last call the handler     *)
(* ran of the last message) while the buffer held e, the                   *)
(* displayed result is text, ResultFinalized is true and the expression is *)
(* not cleared; and once the queued history update is applied the head of  *)
(* HistoryLog pairs e with text, whichever handlers ran in between.        *)
(* dispatched holds e and text of the last result since the last reset.    *)
C4_HistoryPairsDispatchedExpression ==
    /\ (LastHandled # <<>> /\ LastHandled[Len(LastHandled)].name = "displayResult") =>
          /\ displayText = LastHandled[Len(LastHandled)].text
          /\ isResultFinalRef
          /\ frags # <<>> => expression = Concat(frags)
    /\ (dispatched # <<>> /\ pend.hist = <<>>) =>
          /\ history # <<>>
          /\ Head(history) = HistoryEntry(dispatched[1].expr, dispatched[1].text)

(* C5: after a message of which the last call the handler ran is resetApp, *)
(* the displayed                                                           *)
(* expression and the TranscriptionBuffer are empty, the displayed result  *)
(* is "0", HistoryLog (as the next render shows it) is empty and           *)
(* ResultFinalized is false.                                               *)
C5_ResetApp ==
    (LastHandled # <<>> /\ LastHandled[Len(LastHandled)].name = "resetApp") =>
        /\ expression = ""
        /\ currentInputRef = ""
        /\ displayText = "0"
        /\ ShownHistory = <<>>
        /\ ~isResultFinalRef

C5_Witness ==
    /\ Len(LastCalls) = 2
    /\ LastCalls[1].name = "noSuchTool"
    /\ LastCalls[2].name = "resetApp"
    /\ history # <<>>
    /\ ShownHistory = <<>>
    /\ displayText = "0"

(* C6: HistoryLog never has more than 10 entries, and the render of one    *)
(* result on a log of 10 entries puts the new entry at the head, moves the *)
(* others down by one in their order and drops the last.                   *)
C6_Eviction ==
    (/\ Len(history) = 10
     /\ Len(pend.hist) = 1
     /\ pend.hist[1].op = "updater"
     /\ pend' = NoUpdates) =>
        /\ Len(history') = 10
        /\ history'[1] = HistoryEntry(currentInputRef, pend.hist[1].text)
        /\ \A i \in 2 .. 10 : history'[i] = history[i - 1]

C6_BoundedHistory ==
    /\ [](Len(history) <= 10 /\ Len(ShownHistory) <= 10)
    /\ [][C6_Eviction]_vars

C6_Witness ==
    /\ Len(history) = 10
    /\ history[1] = " = 9"
    /\ history[10] = " = 8"
    /\ pend.hist = <<PushHistory("9")>>

(* C7: of two fragments arriving one after the other in one session, the   *)
(* buffer of the first is scheduled first and the second starts no earlier *)
(* than the first ends.                                                    *)
C7_ArrivalOrder ==
    \A i, j \in DOMAIN sched :
        (sched[i].ctx = sched[j].ctx /\ sched[j].n = sched[i].n + 1) =>
            /\ i < j
            /\ sched[j].start >= sched[i].start + sched[i].dur

(* C8: a buffer is started at a time that is not before the current time   *)
(* of the output device when the start is issued.                          *)
C8_NotInThePast == \A i \in DOMAIN sched : sched[i].start >= sched[i].at

(* Nothing is pending any more, and no pending operation failed (the      *)
(* device request was granted, the transport reported no error).           *)
Settled ==
    /\ \A k \in Attempts : att[k].pc # "awaitMedia" /\ att[k].sess \notin {"connecting", "closing"}
    /\ pend = NoUpdates

Resolved == \A k \in Attempts : att[k].pc # "failed" /\ ~att[k].errored

(* C9: a teardown invoked while connect() was pending is not lost: once    *)
(* the pending operations have resolved, ConnectionState is Disconnected,  *)
(* no capture runs, no input stream or audio context is held and no        *)
(* session is open.                                                        *)
C9_TeardownNotLost ==
    (tornDown /\ Settled /\ Resolved) =>
        /\ connectionState = DISCONNECTED
        /\ streamRef = 0
        /\ inputAudioContextRef = 0
        /\ outputAudioContextRef = 0
        /\ \A k \in Attempts : att[k].stream # "live" /\ att[k].sess # "open"

(* C10: after cleanup ConnectionState is Disconnected, ActivePlaybackSet   *)
(* and the TranscriptionBuffer are empty and ResultFinalized is false; no  *)
(* resource is released twice; and a cleanup that follows a cleanup        *)
(* changes nothing.                                                        *)
C10_AfterCleanup ==
    last.op = "cleanup" =>
        /\ ShownConnectionState = DISCONNECTED
        /\ sourcesRef = {}
        /\ currentInputRef = ""
        /\ ~isResultFinalRef
        /\ streamRef = 0 /\ inputAudioContextRef = 0
        /\ outputAudioContextRef = 0 /\ sessionRef = 0

C10_ReleasedOnce ==
    \A k \in Attempts :
        rel[k].stream <= 1 /\ rel[k].inCtx <= 1 /\ rel[k].outCtx <= 1 /\ rel[k].sess <= 1

C10_SecondCleanup ==
    (last.op = "cleanup" /\ last'.op = "cleanup") =>
        /\ ShownConnectionState' = ShownConnectionState
        /\ UNCHANGED <<displayText, expression, analyser, refVars, rel>>
        /\ \A k \in Attempts : [att'[k] EXCEPT !.errored = FALSE] = [att[k] EXCEPT !.errored = FALSE]

C10_Idempotent ==
    /\ [](C10_AfterCleanup /\ C10_ReleasedOnce)
    /\ [][C10_SecondCleanup]_vars

C10_Witness ==
    /\ last.op = "cleanup"
    /\ att[1].errored
    /\ pend = NoUpdates
    /\ rel[1].stream = 1 /\ rel[1].inCtx = 1 /\ rel[1].outCtx = 1 /\ rel[1].sess = 1

(* A step that starts a call of connect().                                 *)
ConnectStarts == nAttempts' # nAttempts

(* C11 as stated: connect() has no effect unless ConnectionState is        *)
(* Disconnected: a connect() started in Connecting, Connected or Error     *)
(* changes neither ConnectionState nor an owned resource and opens no      *)
(* transport session.                                                      *)
C11_NoEffect ==
    (connectionState # DISCONNECTED /\ ConnectStarts) =>
        /\ connectionState' = connectionState
        /\ UNCHANGED <<inputAudioContextRef, outputAudioContextRef, streamRef, sessionRef>>
        /\ \A k \in Attempts :
              /\ att'[k].inCtx = att[k].inCtx
              /\ att'[k].outCtx = att[k].outCtx
              /\ att'[k].stream = att[k].stream
              /\ att'[k].sess = att[k].sess

C11_ConnectOnlyWhenDisconnected == [][C11_NoEffect]_vars

(* C11 amended: while ConnectionState is Connecting or Connected no        *)
(* connect() is started, no attempt leaves its idle state and              *)
(* toggleConnection runs the teardown; Error is left out, where            *)
(* toggleConnection starts a connect() as it does in Disconnected.         *)
C11_NoNewAttempt ==
    connectionState \in {CONNECTING, CONNECTED} =>
        /\ ~ConnectStarts
        /\ \A k \in Attempts : att[k].pc = "idle" => att'[k].pc = "idle"

C11_NoConnectWhileActive == [][C11_NoNewAttempt]_vars

C11_Witness ==
    /\ last.op = "cleanup"
    /\ connectionState = DISCONNECTED
    /\ nAttempts = 1
    /\ att[1].sess = "closing"
    /\ att[2].pc = "idle"

(* C12: the handler in which a connect attempt fails (the credential is   *)
(* missing, the input device is refused, or the transport reports an       *)
(* error before it opened) leaves ConnectionState at Error, and the        *)
(* attempt never has an open session.  The attempts are those no           *)
(* teardown has interrupted.                                               *)
C12_Fails(k) ==
    /\ ~tornDown
    /\ \/ att[k].pc # "failed" /\ att'[k].pc = "failed"
       \/ ~att[k].errored /\ att'[k].errored /\ ~att[k].resolved

C12_ErrorAfterFailure ==
    \A k \in Attempts :
        C12_Fails(k) => (ShownConnectionState' = ERROR /\ att'[k].sess # "open")

C12_FailureSurfacesAsError == [][C12_ErrorAfterFailure]_vars

(* C13: the onerror handler, in whatever state it runs, leaves             *)
(* ConnectionState at Disconnected, the references to the stream, to both  *)
(* audio contexts and to the session empty, what they referred to          *)
(* released and ActivePlaybackSet empty; and Error is never the rendered   *)
(* state but after a connect() that failed in its catch block.             *)
C13_Released ==
    /\ streamRef # 0 => att'[streamRef].stream = "stopped"
    /\ inputAudioContextRef # 0 => att'[inputAudioContextRef].inCtx = "closed"
    /\ outputAudioContextRef # 0 => att'[outputAudioContextRef].outCtx = "closed"
    /\ sessionRef # 0 => (att'[sessionRef].sess # "open" \/ att'[sessionRef].closeReq)

C13_AfterOnerror ==
    (\E k \in Attempts : ~att[k].errored /\ att'[k].errored) =>
        /\ ShownConnectionState' = DISCONNECTED
        /\ streamRef' = 0 /\ sessionRef' = 0
        /\ inputAudioContextRef' = 0 /\ outputAudioContextRef' = 0
        /\ sourcesRef' = {}
        /\ C13_Released

C13_ErrorNotSticky ==
    /\ [](connectionState = ERROR => \E k \in Attempts : att[k].pc = "failed")
    /\ [][C13_AfterOnerror]_vars

C13_Witness ==
    /\ att[1].errored /\ att[1].resolved
    /\ last.op = "cleanup"
    /\ connectionState = CONNECTED
    /\ ShownConnectionState = DISCONNECTED
    /\ att[1].stream = "stopped" /\ att[1].sess = "closing"
    /\ sched # <<>>
    /\ sourcesRef = {}

(* C14: a step of handleManualReset sets the displayed result to "0",     *)
(* empties the displayed expression, the TranscriptionBuffer and           *)
(* HistoryLog, clears ResultFinalized, and leaves unchanged                *)
(* ConnectionState, the session, the input stream, both audio contexts,    *)
(* the playback timeline cursor and ActivePlaybackSet.                     *)
C14_Reset ==
    handleManualReset =>
        /\ displayText' = "0"
        /\ expression' = ""
        /\ currentInputRef' = ""
        /\ history' = <<>> /\ ShownHistory' = <<>>
        /\ isResultFinalRef' = FALSE
        /\ ShownConnectionState' = ShownConnectionState
        /\ UNCHANGED <<sessionRef, streamRef, inputAudioContextRef, outputAudioContextRef,
                       nextStartTimeRef, sourcesRef, att, decoding, sched>>

C14_ManualReset == [][C14_Reset]_vars

C14_Witness ==
    /\ displayText = "0"
    /\ expression = "" /\ currentInputRef = "" /\ history = <<>>
    /\ sourcesRef # {} /\ nextStartTimeRef > 0
    /\ sessionRef = 1 /\ att[1].sess = "closed"
    /\ connectionState = DISCONNECTED

(* C15: once an exit path of a session has completed (nothing is pending  *)
(* and ConnectionState is Disconnected or Error), no input stream is       *)
(* live, no audio context is running, no transport session is open and     *)
(* ActivePlaybackSet is empty.  The paths are those no teardown            *)
(* interrupted while connect() was pending (C9).                           *)
C15_ReleasedOnEveryExit ==
    (Settled /\ ~tornDown /\ connectionState \in {DISCONNECTED, ERROR}) =>
        /\ \A k \in Attempts :
              /\ att[k].stream # "live"
              /\ att[k].inCtx # "running"
              /\ att[k].outCtx # "running"
              /\ att[k].sess # "open"
        /\ sourcesRef = {}

(* C16: an outbound audio chunk is sent only while ConnectionState is     *)
(* Connected, as rendered or as the next render shows it.                  *)
C16_CaptureOnlyWhileConnected ==
    \A i \in DOMAIN out :
        out[i].type = "realtimeInput" =>
            (connectionState = CONNECTED \/ ShownConnectionState = CONNECTED)

(* C17: from a hard stop to the next connect() (while the reference to    *)
(* the output context is empty) ActivePlaybackSet is empty, and the        *)
(* handles in the set are handles that were scheduled.                     *)
C17_EmptyAfterHardStop ==
    /\ outputAudioContextRef = 0 => sourcesRef = {}
    /\ \A n \in sourcesRef : \E i \in DOMAIN sched : sched[i].n = n

(* C18: a teardown leaves the playback timeline cursor at 0, and the      *)
(* first buffer scheduled on the output context of a session starts at     *)
(* max(0, the current time of that context).                               *)
C18_CursorResetByTeardown ==
    /\ last.op = "cleanup" => nextStartTimeRef = 0
    /\ \A i \in DOMAIN sched :
          (\A j \in 1 .. i - 1 : sched[j].ctx # sched[i].ctx) =>
              sched[i].start = Max(0, sched[i].at)

(* C19: when the decode of a fragment fails the fragment is dropped.  For *)
(* the first fragment of a session, handled with the cursor at 0: once     *)
(* its decode has failed no handle is in ActivePlaybackSet, nothing is     *)
(* scheduled, the playback timeline cursor is 0 as before the fragment,    *)
(* and ConnectionState is unchanged.                                       *)
C19_FailedDecodeDropped ==
    (nAudio = 1 /\ decoding = {} /\ sched = <<>>) =>
        /\ sourcesRef = {}
        /\ nextStartTimeRef = 0
        /\ ShownConnectionState = CONNECTED

(* C20: an open or close event of a session that cleanup has closed, and   *)
(* that a later connect() has followed, changes neither ConnectionState    *)
(* nor the TranscriptionBuffer, ResultFinalized, HistoryLog, the playback  *)
(* timeline cursor or ActivePlaybackSet; and at most one transport         *)
(* session is open at any time.                                            *)
C20_LateEvent(k) ==
    /\ k < nAttempts
    /\ nAttempts' = nAttempts
    /\ att[k].sess = "closing" \/ att[k].closeReq
    /\ att'[k].sess # att[k].sess

C20_NoEffect ==
    (\E k \in Attempts : C20_LateEvent(k)) =>
        /\ ShownConnectionState' = ShownConnectionState
        /\ ShownHistory' = ShownHistory
        /\ UNCHANGED <<currentInputRef, isResultFinalRef, nextStartTimeRef, sourcesRef>>

C20_OneSession == Cardinality({k \in Attempts : att[k].sess = "open"}) <= 1

C20_StaleCallbacksIgnored ==
    /\ []C20_OneSession
    /\ [][C20_NoEffect]_vars

====
